---------------------------- MODULE Spec2Model ----------------------------
(* Model of the salesAgent conversation engine:                            *)
(*   src/src/agents/agents.py          ChatContext, on_handoff, Agents.run *)
(*   src/src/whatsapp/utils/whatsapp_utils.py   the WhatsApp transport     *)
(*   src/__main__.py                   the CLI transport                   *)
(*   src/src/db/supabase_client.py     the backend client                  *)
(*   src/src/db/database.py            the CRUD tools                      *)
EXTENDS Integers, Sequences, FiniteSets, TLC

VARIABLES
    proc,       \* the process running: the CLI loop or the webhook server
    heap,       \* the ChatContext objects created so far, by object id
    contexts,   \* whatsapp_utils._contexts: wa_id -> object id (0: no entry)
    last_agent, \* per object, the agent that ended its last completed run
    inbound,    \* per object, the number of inbound user messages so far
    lastRun,    \* what the last call of Agents.run did
    lastTurn,   \* what the last transport handler did
    turns,      \* number of inbound messages handled so far
    thr,        \* the webhook threads of the concurrent specification
    ho,         \* the hand-off under check (specification SpecHandoff)
    sb,         \* initialize_supabase_client (specification SpecInit)
    crud,       \* the CRUD call under check (specification SpecCrud)
    pay,        \* the create_mercadopago_link call (specification SpecPay)
    cart,       \* the order under check (specifications SpecOrder, SpecCart)
    config      \* current_app.config of the webhook server

vars == <<proc, heap, contexts, last_agent, inbound, lastRun, lastTurn, turns, thr, ho, sb, crud, pay, cart, config>>

-----------------------------------------------------------------------------
(* Bounds *)

MaxTurns == 3

-----------------------------------------------------------------------------
(* Values *)

NoneVal == "None"

MainAgent == "Main Agent"
SalesAgent == "Sales Agent"
ProductAgent == "Product Agent"

\* inbound user texts; the first carries purchase and product keywords
UserTexts == {"quiero 2 pizzas", "hola"}

HasKeyword(text) == text \in {"quiero 2 pizzas"}

\* final outputs of the Reasoner
Responses == {"Listo", "NO_MATCH: x"}

WaIds == {"u1", "u2"}

\* the values RECIPIENT_WAID takes in the environment: the bare number, or
\* the number in quotes followed by a comment
RecipientSettings == {"u1", "'u1' # dev"}

\* .split()[0].replace('"', "").replace("'", "")
NormalizeWaid(raw) ==
    CASE raw = "'u1' # dev" -> "u1"
      [] OTHER -> raw

Config(raw) == [RECIPIENT_WAID |-> raw, PHONE_NUMBER_ID |-> "p1"]

DefaultConfig == Config("'u1' # dev")

\* current_app.config["RECIPIENT_WAID"] after .split()[0] and quote removal
recipient_waid == NormalizeWaid(config.RECIPIENT_WAID)

-----------------------------------------------------------------------------
(* ChatContext *)

EmptyOrder == <<>>

ChatContext_WithState(id) ==
    [uid |-> id, messages |-> <<>>, current_order |-> <<>>,
     last_sent_payload |-> <<>>, conversation_state |-> <<>>, turnCount |-> 0]

ChatContext(id) ==
    [uid |-> id, messages |-> <<>>, current_order |-> EmptyOrder,
     last_sent_payload |-> <<>>]

Message(role, content) == [role |-> role, content |-> content]

add_message_Extracting(ctx, role, content) ==
    [ctx EXCEPT !.messages = Append(@, [role |-> role, content |-> content]),
                !.current_order =
                    IF role = "user" /\ content = "quiero 2 pizzas"
                    THEN [k \in {"pizza"} |->
                            [producto |-> "pizza", cantidad |-> 2, precio_unitario |-> <<>>]]
                    ELSE @]

add_message_KeepRecent(ctx, role, content) ==
    LET all == Append(ctx.messages, [role |-> role, content |-> content])
        users == Cardinality({i \in 1..Len(all) : all[i].role = "user"})
    IN  [ctx EXCEPT !.messages = IF role = "user" /\ users >= 15 /\ Len(all) > 10
                                 THEN SubSeq(all, Len(all) - 9, Len(all))
                                 ELSE all]

add_message_Pruning(ctx, role, content) ==
    [ctx EXCEPT !.messages = IF Len(@) >= 4
                             THEN <<Message(role, content)>>
                             ELSE Append(@, Message(role, content))]

\* self.messages.append({"role": role, "content": content}): nothing else is
\* touched, nothing is counted, nothing is dropped
add_message(ctx, role, content) ==
    [ctx EXCEPT !.messages = Append(@, Message(role, content))]

get_messages(ctx) == ctx.messages


-----------------------------------------------------------------------------
(* The agents and the Reasoner (Runner.run of the agents SDK) *)

Handoffs_ProductsBackToSales(agent) ==
    CASE agent = MainAgent -> {SalesAgent, ProductAgent}
      [] agent = SalesAgent -> {ProductAgent}
      [] agent = ProductAgent -> {SalesAgent}
      [] OTHER -> {}

\* the handoffs= lists of Agents.__init__
Handoffs(agent) ==
    CASE agent = MainAgent -> {SalesAgent, ProductAgent}
      [] agent = SalesAgent -> {ProductAgent}
      [] OTHER -> {}

\* the hand-offs built by handoff(..., on_handoff=on_handoff) that an agent lists
CallbackHandoffs(agent) ==
    IF agent = SalesAgent THEN {ProductAgent} ELSE {}

AgentNames == {MainAgent, SalesAgent, ProductAgent}

\* the longest chain of agents followed within one run
MaxPathLen == 4

\* the chains of agents one run can pass through from its starting agent
RECURSIVE PathsOfLen(_, _)
PathsOfLen(start, n) ==
    IF n = 1
    THEN {<<start>>}
    ELSE UNION {{Append(p, a) : a \in Handoffs(p[Len(p)])} : p \in PathsOfLen(start, n - 1)}

RunnerPaths(start) == UNION {PathsOfLen(start, n) : n \in 1..MaxPathLen}

\* number of on_handoff invocations along a chain
OnHandoffCalls(p) ==
    Cardinality({i \in 1..(Len(p) - 1) : p[i + 1] \in CallbackHandoffs(p[i])})

\* what one Runner.run does: it passes through a chain of agents and returns a
\* final output, or it raises (the chain of a run that raised is not recorded)
RunnerOutcomes(start) ==
    [raised : {"none"}, path : RunnerPaths(start), final_output : Responses]
    \cup
    [raised : {"Exception", "RuntimeError"}, path : {<<start>>},
     final_output : {NoneVal}]

StartingAgent_Previous(previous) == previous

\* the starting_agent= argument of both Runner.run calls of Agents.run; the
\* agent that ended the session's previous run plays no part in it
StartingAgent(previous) == MainAgent

RunnerInput_RawUntilAnswered(ctx, text) ==
    LET message_count == Len(get_messages(ctx))
    IN  IF message_count <= 2
        THEN [kind |-> "text", text |-> text, messages |-> <<>>]
        ELSE [kind |-> "history", text |-> "", messages |-> get_messages(ctx)]

\* the input= argument Agents.run hands to Runner.run
RunnerInput(ctx, text) ==
    LET message_count == Len(get_messages(ctx))
    IN  IF message_count = 1
        THEN [kind |-> "text", text |-> text, messages |-> <<>>]
        ELSE [kind |-> "history", text |-> "", messages |-> get_messages(ctx)]

StoredResponse_Humanized(response) == "humanized"

\* the message Agents.run stores for the assistant: response, not the
\* humanized text it prints
StoredResponse(response) == response

AgentsRun_FailureClearsMessages(ctx, text, o) ==
    LET c1 == add_message(ctx, "user", text)
        input == RunnerInput(c1, text)
    IN  IF o.raised # "none"
        THEN [ctx |-> [c1 EXCEPT !.messages = <<>>], input |-> input,
              raised |-> o.raised, response |-> NoneVal, start |-> o.path[1]]
        ELSE [ctx |-> add_message(c1, "assistant", StoredResponse(o.final_output)),
              input |-> input, raised |-> "none",
              response |-> o.final_output, start |-> o.path[1]]

\* Agents.run(text, context) with a ChatContext: the context afterwards, the
\* value returned and the exception raised
AgentsRun(ctx, text, o) ==
    LET c1 == add_message(ctx, "user", text)
        input == RunnerInput(c1, text)
    IN  IF o.raised # "none"
        THEN [ctx |-> c1, input |-> input, raised |-> o.raised,
              response |-> NoneVal, start |-> o.path[1]]
        ELSE [ctx |-> add_message(c1, "assistant", StoredResponse(o.final_output)),
              input |-> input, raised |-> "none",
              response |-> o.final_output, start |-> o.path[1]]

NoRun ==
    [called |-> FALSE, sid |-> 0, nth |-> 0, previous |-> MainAgent, text |-> "",
     before |-> <<>>, input |-> [kind |-> "text", text |-> "", messages |-> <<>>],
     reasoner |-> "none", raised |-> "none", response |-> NoneVal,
     path |-> <<>>, callbacks |-> 0]

\* the record of one call of Agents.run: on session sid, for its nth inbound
\* message, previous being the agent that ended the session's last completed
\* run; reasoner is what Runner.run did and raised what Agents.run raised
RunRecord(sid, nth, previous, before, text, o, r) ==
    [called |-> TRUE, sid |-> sid, nth |-> nth, previous |-> previous,
     text |-> text, before |-> before, input |-> r.input,
     reasoner |-> o.raised, raised |-> r.raised, response |-> r.response,
     path |-> o.path, callbacks |-> OnHandoffCalls(o.path)]


-----------------------------------------------------------------------------
(* The WhatsApp transport *)

TextPayload(recipient, body_text) ==
    [to |-> recipient, type |-> "text", body |-> body_text]

ListPayload(recipient, body_text) ==
    [to |-> recipient, type |-> "interactive", body |-> body_text]

\* json.dumps(payload, sort_keys=True): one string per payload value
json_dumps(payload) == <<payload.to, payload.type, payload.body>>

\* _contexts.get(key)
ContextsGet(cmap, key) == IF key \in DOMAIN cmap THEN cmap[key] ELSE 0

\* send_message(payload): the heap afterwards and the payloads POSTed
send_message(h, cmap, payload) ==
    LET oid == ContextsGet(cmap, payload.to)
        payload_str == json_dumps(payload)
    IN  IF oid # 0 /\ h[oid].last_sent_payload = payload_str
        THEN [heap |-> h, posted |-> <<>>]
        ELSE [heap |-> IF oid # 0
                       THEN [h EXCEPT ![oid].last_sent_payload = payload_str]
                       ELSE h,
              posted |-> <<payload>>]

\* lines 52-65: requests.post and raise_for_status return, or time out, or
\* fail with another RequestException
PostOutcomes == {"ok", "Timeout", "RequestException"}

\* the payloads among posted whose POST succeeded, posts[i] being what the
\* i-th POST did
Delivered(posted, posts) ==
    LET RECURSIVE Keep(_)
        Keep(i) == IF i > Len(posted) THEN <<>>
                   ELSE (IF posts[i] = "ok" THEN <<posted[i]>> ELSE <<>>) \o Keep(i + 1)
    IN  Keep(1)

welcome_text == "Hola! Bienvenido/a"

\* _send_initial_catalog(recipient_waid); rows: whether the catalog has rows
\* sent: the payloads handed to send_message, posted: those it POSTed
send_initial_catalog_ListAlways(h, cmap, recipient, rows) ==
    LET welcome == TextPayload(recipient, welcome_text)
        list_payload == ListPayload(recipient, "Elige tu producto favorito:")
        s1 == send_message(h, cmap, welcome)
        s2 == send_message(s1.heap, cmap, list_payload)
    IN  [heap |-> s2.heap, posted |-> s1.posted \o s2.posted,
         sent |-> <<welcome, list_payload>>]

send_initial_catalog(h, cmap, recipient, rows) ==
    LET welcome == TextPayload(recipient, welcome_text)
        list_payload == ListPayload(recipient, "Elige tu producto favorito:")
        s1 == send_message(h, cmap, welcome)
        s2 == send_message(s1.heap, cmap, list_payload)
    IN  IF rows
        THEN [heap |-> s2.heap, posted |-> s1.posted \o s2.posted,
              sent |-> <<welcome, list_payload>>]
        ELSE [heap |-> s1.heap, posted |-> s1.posted, sent |-> <<welcome>>]

CtaPayload(recipient, body_text, url) ==
    [to |-> recipient, type |-> "interactive", body |-> <<body_text, url>>]

\* process_text_for_whatsapp: drops the citations in lenticular brackets
\* (written [1] here), strips, and turns **x** into *x*
process_text_for_whatsapp(text) ==
    CASE text = "**Listo**" -> "*Listo*"
      [] text = "Listo [1]" -> "Listo"
      [] OTHER -> text

StartsWithHola(text) == text \in {"Hola, que deseas?"}

HasNoMatch(response) == response \in {"NO_MATCH: x"}

HasPaymentInfo(response) == response \in {"PAYMENT_INFO: Total: $20 | Link: L"}

HasProductInfo(response) == response \in {"PRODUCT_INFO: Pizza | PRICE: $10"}

\* the reply process_whatsapp_message builds for a response of a later
\* message (is_first_message false), <<>> when it sends none
ReplyFor(response, recipient) ==
    IF response = "" \/ HasNoMatch(response)
    THEN <<>>
    ELSE IF HasPaymentInfo(response)
    THEN <<CtaPayload(recipient, "Your order is ready! Total $20. Tap the button to pay.", "L")>>
    ELSE IF HasProductInfo(response)
    THEN <<TextPayload(recipient, "Excelente eleccion! He agregado Pizza por $10 a tu pedido.")>>
    ELSE LET text_body == process_text_for_whatsapp(response)
         IN  IF StartsWithHola(text_body)
             THEN <<>>
             ELSE <<TextPayload(recipient, text_body)>>


-----------------------------------------------------------------------------
(* The transports, one inbound message at a time (specification Spec) *)

NoTurn ==
    [transport |-> "none", sid |-> 0, wa |-> NoneVal, text |-> "", first |-> FALSE,
     runs |-> 0, escaped |-> "none", rows |-> FALSE, sent |-> <<>>,
     posted |-> <<>>, delivered |-> <<>>]

\* the ChatContext main() creates for the CLI loop
cliCtx == 1

Idle == [pc |-> "idle"]

\* __main__.py creates its ChatContext before the loop; the webhook server
\* starts with _contexts empty
SessionInit ==
    /\ proc \in {"cli", "webhook"}
    /\ heap = IF proc = "cli" THEN <<ChatContext(cliCtx)>> ELSE <<>>
    /\ contexts = [w \in WaIds |-> 0]
    /\ last_agent = IF proc = "cli" THEN <<MainAgent>> ELSE <<>>
    /\ inbound = IF proc = "cli" THEN <<0>> ELSE <<>>
    /\ lastRun = NoRun
    /\ lastTurn = NoTurn
    /\ turns = 0

Init ==
    /\ SessionInit
    /\ thr = Idle
    /\ ho = Idle
    /\ sb = Idle
    /\ crud = Idle
    /\ pay = Idle
    /\ cart = Idle
    /\ config = DefaultConfig

\* one pass of the loop of main() with a query that is no command:
\* agents.run inside try/except Exception
CliTurn(query, o) ==
    /\ proc = "cli"
    /\ turns < MaxTurns
    /\ LET r == AgentsRun(heap[cliCtx], query, o)
       IN  /\ heap' = [heap EXCEPT ![cliCtx] = r.ctx]
           /\ last_agent' = IF r.raised = "none"
                            THEN [last_agent EXCEPT ![cliCtx] = o.path[Len(o.path)]]
                            ELSE last_agent
           /\ inbound' = [inbound EXCEPT ![cliCtx] = @ + 1]
           /\ lastRun' = RunRecord(cliCtx, inbound[cliCtx] + 1, last_agent[cliCtx],
                                   heap[cliCtx].messages, query, o, r)
           /\ lastTurn' = [NoTurn EXCEPT !.transport = "cli", !.sid = cliCtx,
                                         !.text = query, !.runs = 1]
    /\ turns' = turns + 1
    /\ UNCHANGED <<proc, contexts, thr, ho, sb, crud, pay, cart, config>>

\* process_whatsapp_message with a message of an unsupported type
WaUnsupported(wa) ==
    /\ proc = "webhook"
    /\ turns < MaxTurns
    /\ lastTurn' = [NoTurn EXCEPT !.transport = "wa", !.wa = wa]
    /\ turns' = turns + 1
    /\ UNCHANGED <<proc, heap, contexts, last_agent, inbound, lastRun, thr, ho, sb, crud, pay, cart, config>>

\* lines 137-142: look the context up or create it, then add the user message
LookupOrCreate(h, cmap, wa) ==
    LET found == ContextsGet(cmap, wa)
        oid == IF found = 0 THEN Len(h) + 1 ELSE found
    IN  [oid |-> oid, created |-> found = 0,
         heap |-> IF found = 0 THEN Append(h, ChatContext(oid)) ELSE h,
         contexts |-> [cmap EXCEPT ![wa] = oid]]

\* process_whatsapp_message, first message of the context: welcome and catalog
WaFirst(wa, body, rows, outcomes) ==
    /\ proc = "webhook"
    /\ turns < MaxTurns
    /\ LET c == LookupOrCreate(heap, contexts, wa)
           h1 == [c.heap EXCEPT ![c.oid] = add_message(@, "user", body)]
           s == send_initial_catalog(h1, c.contexts, recipient_waid, rows)
       IN  /\ Len(h1[c.oid].messages) = 1
           /\ heap' = s.heap
           /\ contexts' = c.contexts
           /\ last_agent' = IF c.created THEN Append(last_agent, MainAgent) ELSE last_agent
           /\ inbound' = IF c.created THEN Append(inbound, 1)
                         ELSE [inbound EXCEPT ![c.oid] = @ + 1]
           /\ \E posts \in [1..Len(s.posted) -> outcomes] :
                lastTurn' = [NoTurn EXCEPT !.transport = "wa", !.sid = c.oid, !.wa = wa,
                                          !.text = body, !.first = TRUE,
                                          !.rows = rows, !.sent = s.sent,
                                          !.posted = s.posted,
                                          !.delivered = Delivered(s.posted, posts)]
    /\ lastRun' = NoRun
    /\ turns' = turns + 1
    /\ UNCHANGED <<proc, thr, ho, sb, crud, pay, cart, config>>

\* process_whatsapp_message, a later message: asyncio.run(_generate_response()),
\* run again on RuntimeError, then the reply. o2 is the outcome of the second
\* run, o1 when there is none.
WaLater(wa, body, o1, o2, outcomes) ==
    /\ proc = "webhook"
    /\ turns < MaxTurns
    /\ LET c == LookupOrCreate(heap, contexts, wa)
           h1 == [c.heap EXCEPT ![c.oid] = add_message(@, "user", body)]
           r1 == AgentsRun(h1[c.oid], body, o1)
           again == r1.raised = "RuntimeError"
           r == IF again THEN AgentsRun(r1.ctx, body, o2) ELSE r1
           h2 == [h1 EXCEPT ![c.oid] = r.ctx]
           reply == IF r.raised = "none" THEN ReplyFor(r.response, recipient_waid) ELSE <<>>
           s == IF reply = <<>>
                THEN [heap |-> h2, posted |-> <<>>]
                ELSE send_message(h2, c.contexts, reply[1])
       IN  /\ Len(h1[c.oid].messages) # 1
           /\ heap' = s.heap
           /\ contexts' = c.contexts
           /\ last_agent' = IF r.raised = "none"
                            THEN [last_agent EXCEPT ![c.oid] = o2.path[Len(o2.path)]]
                            ELSE last_agent
           /\ inbound' = [inbound EXCEPT ![c.oid] = @ + 1]
           /\ lastRun' = RunRecord(c.oid, inbound[c.oid] + 1, last_agent[c.oid],
                                   IF again THEN r1.ctx.messages ELSE h1[c.oid].messages,
                                   body, o2, r)
           /\ \E posts \in [1..Len(s.posted) -> outcomes] :
                lastTurn' = [NoTurn EXCEPT !.transport = "wa", !.sid = c.oid, !.wa = wa,
                                          !.text = body,
                                          !.runs = IF again THEN 2 ELSE 1,
                                          !.escaped = r.raised,
                                          !.sent = reply,
                                          !.posted = s.posted,
                                          !.delivered = Delivered(s.posted, posts)]
    /\ turns' = turns + 1
    /\ UNCHANGED <<proc, thr, ho, sb, crud, pay, cart, config>>

\* the agent that ended the last completed run of the conversation of wa
OwnerOf(wa) == IF contexts[wa] = 0 THEN MainAgent ELSE last_agent[contexts[wa]]

\* process_whatsapp_message for a message of wa, its POSTs ending in one of
\* outcomes
ProcessWith(wa, outcomes) ==
        \/ WaUnsupported(wa)
        \/ \E body \in UserTexts, rows \in BOOLEAN : WaFirst(wa, body, rows, outcomes)
        \/ \E body \in UserTexts :
             \E o1 \in RunnerOutcomes(StartingAgent(OwnerOf(wa))) :
               \E o2 \in IF o1.raised = "RuntimeError"
                          THEN RunnerOutcomes(StartingAgent(OwnerOf(wa)))
                          ELSE {o1} :
                 WaLater(wa, body, o1, o2, outcomes)

\* What a POST does changes no variable of the program (send_message's callers
\* drop its result): the specifications that do not ask what was delivered
\* follow the POSTs that succeed; SpecWebhookPosts follows every outcome.
ProcessWhatsappMessageOf(wa) == ProcessWith(wa, {"ok"})

ProcessWhatsappMessage == \E wa \in WaIds : ProcessWhatsappMessageOf(wa)

CliLoop ==
    \E query \in UserTexts :
        \E o \in RunnerOutcomes(StartingAgent(IF proc = "cli" THEN last_agent[cliCtx] ELSE MainAgent)) :
            CliTurn(query, o)

Next ==
    \/ CliLoop
    \/ ProcessWhatsappMessage

Spec == Init /\ [][Next]_vars


-----------------------------------------------------------------------------
(* Claims on the session and on Agents.run (specification Spec) *)

LastOf(seq) == seq[Len(seq)]

NumUser(msgs) == Cardinality({i \in 1..Len(msgs) : msgs[i].role = "user"})

\* C1: when the Reasoner fails during a turn of Agents.run, run raises nothing:
\* it returns a text, and the session's messages then end with the user
\* message of the turn followed by an assistant message carrying that text.
C1_ReasonerFailureReturnedAsText ==
    (lastRun.called /\ lastRun.reasoner # "none") =>
        LET msgs == heap[lastRun.sid].messages
        IN  /\ lastRun.raised = "none"
            /\ lastRun.response # NoneVal
            /\ Len(msgs) >= 2
            /\ msgs[Len(msgs) - 1] = Message("user", lastRun.text)
            /\ msgs[Len(msgs)] = Message("assistant", lastRun.response)

C4_InputRawOnFirstTurnElseHistory ==
    lastRun.called =>
        /\ (lastRun.input.kind = "text") <=> (lastRun.nth = 1)
        /\ (lastRun.nth = 1) => (lastRun.input.text = lastRun.text)
        /\ (lastRun.nth > 1) =>
              /\ lastRun.input.kind = "history"
              /\ lastRun.input.messages =
                    Append(lastRun.before, Message("user", lastRun.text))

C4_Witness ==
    /\ lastRun.called
    /\ lastRun.nth > 1
    /\ lastRun.input.kind = "history"
    /\ Len(lastRun.input.messages) >= 2

\* C5: a turn that completes without error appends the user message and then
\* exactly one assistant message to what the session held, in that order, and
\* returns exactly the content of that assistant message.
C5_TurnAppendsUserThenAssistant ==
    (lastRun.called /\ lastRun.raised = "none") =>
        /\ heap[lastRun.sid].messages =
              lastRun.before \o <<Message("user", lastRun.text),
                                  Message("assistant", lastRun.response)>>
        /\ lastRun.response = LastOf(heap[lastRun.sid].messages).content

C5_Witness ==
    /\ lastRun.called
    /\ lastRun.raised = "none"
    /\ Len(lastRun.before) >= 2
    /\ Len(heap[lastRun.sid].messages) = Len(lastRun.before) + 2

C12_FailedTurnLeavesSessionUsable ==
    lastRun.called =>
        LET ctx == heap[lastRun.sid]
            user == Message("user", lastRun.text)
        IN  /\ (lastRun.raised # "none") =>
                  /\ ctx.current_order = EmptyOrder
                  /\ last_agent[lastRun.sid] = lastRun.previous
                  /\ ctx.messages = Append(lastRun.before, user)
            /\ (/\ proc = "cli"
                /\ lastRun.before # <<>>
                /\ LastOf(lastRun.before).role = "user"
                /\ lastRun.reasoner = "none") =>
                  /\ lastRun.raised = "none"
                  /\ lastRun.path[1] = MainAgent
                  /\ lastRun.input.messages = Append(lastRun.before, user)
                  /\ ctx.messages =
                        lastRun.before \o <<user, Message("assistant", lastRun.response)>>

C12_Witness ==
    /\ proc = "cli"
    /\ lastRun.called
    /\ lastRun.raised = "none"
    /\ Len(lastRun.path) = 3
    /\ lastRun.before # <<>>
    /\ LastOf(lastRun.before).role = "user"


\* the sessions that were given the user message text
SessionsTold(text) ==
    {oid \in 1..Len(heap) :
        \E i \in 1..Len(heap[oid].messages) :
            heap[oid].messages[i] = Message("user", text)}

C22_EveryHandoffInvokesCallback ==
    (lastRun.called /\ lastRun.reasoner = "none") =>
        lastRun.callbacks = Len(lastRun.path) - 1


Edges == {<<MainAgent, SalesAgent>>, <<MainAgent, ProductAgent>>,
          <<SalesAgent, ProductAgent>>}

\* C23: within one turn control starts at the Main Agent and moves only
\* main->sales, main->products or sales->products: a turn performs at most two
\* hand-offs, visits no agent twice and never goes from products to sales.
C23_HandoffChainAcyclic ==
    (lastRun.called /\ lastRun.reasoner = "none") =>
        LET p == lastRun.path
        IN  /\ p[1] = MainAgent
            /\ \A i \in 1..(Len(p) - 1) : <<p[i], p[i + 1]>> \in Edges
            /\ Len(p) - 1 <= 2
            /\ \A i, j \in 1..Len(p) : (p[i] = p[j]) => (i = j)
            /\ \A i, j \in 1..Len(p) :
                   (p[i] = ProductAgent /\ p[j] = SalesAgent) => (j < i)

C23_Witness ==
    /\ lastRun.called
    /\ lastRun.path = <<MainAgent, SalesAgent, ProductAgent>>


\* C24: on both transports every inbound user message appears exactly once as
\* a user-role entry of its session's messages, so a session holds as many
\* user-role entries as it received inbound messages.
C24_EachInboundMessageStoredOnce ==
    \A oid \in 1..Len(heap) : NumUser(heap[oid].messages) = inbound[oid]


-----------------------------------------------------------------------------
(* The webhook: is_valid_whatsapp_message, then process_whatsapp_message *)
(* (specification SpecWebhook)                                            *)

\* who a webhook notification can come from: the users and the business number
Senders == WaIds \cup {"p1"}

\* lines 205-221; wellformed: the body has object, entry, changes, value and
\* messages; from_id: the "from" of its first message
is_valid_whatsapp_message(wellformed, from_id) ==
    IF ~wellformed
    THEN FALSE
    ELSE from_id \notin {config.RECIPIENT_WAID, config.PHONE_NUMBER_ID}

WebhookInit ==
    /\ proc = "webhook"
    /\ heap = <<>>
    /\ contexts = [w \in WaIds |-> 0]
    /\ last_agent = <<>>
    /\ inbound = <<>>
    /\ lastRun = NoRun
    /\ lastTurn = NoTurn
    /\ turns = 0
    /\ thr = Idle
    /\ ho = Idle
    /\ sb = Idle
    /\ crud = Idle
    /\ pay = Idle
    /\ cart = Idle
    /\ \E raw \in RecipientSettings : config = Config(raw)

\* a notification that is_valid_whatsapp_message accepts is processed
Accepted ==
    \E from_id \in Senders :
        /\ is_valid_whatsapp_message(TRUE, from_id)
        /\ from_id \in WaIds
        /\ ProcessWhatsappMessageOf(from_id)

\* one it refuses is not
Refused ==
    \E wellformed \in BOOLEAN, from_id \in Senders :
        /\ ~is_valid_whatsapp_message(wellformed, from_id)
        /\ turns < MaxTurns
        /\ lastTurn' = [NoTurn EXCEPT !.transport = "refused", !.wa = from_id]
        /\ turns' = turns + 1
        /\ UNCHANGED <<proc, heap, contexts, last_agent, inbound, lastRun, thr, ho, sb,
                       crud, pay, cart, config>>

WebhookNext ==
    \/ Accepted
    \/ Refused

SpecWebhook == WebhookInit /\ [][WebhookNext]_vars

\* the same, a POST succeeding, timing out or failing
AcceptedAnyPost ==
    \E from_id \in Senders :
        /\ is_valid_whatsapp_message(TRUE, from_id)
        /\ from_id \in WaIds
        /\ ProcessWith(from_id, PostOutcomes)

WebhookPostsNext ==
    \/ AcceptedAnyPost
    \/ Refused

SpecWebhookPosts == WebhookInit /\ [][WebhookPostsNext]_vars

\* C25: processing an inbound message of one conversation leaves the
\* ChatContext of every other conversation as it was: messages, current_order
\* and last_sent_payload.
C25_OtherSessionsUntouched ==
    [][\A wa \in WaIds :
          (lastTurn'.transport = "wa" /\ lastTurn'.wa # wa /\ contexts[wa] # 0) =>
              heap'[contexts[wa]] = heap[contexts[wa]]]_vars

\* C26: send_message suppresses a payload exactly when an identical payload
\* was the last one successfully posted in the payload's conversation. Stated
\* on two consecutive turns of one conversation, the first of which posted:
\* if its last POST succeeded, the reply of the second is suppressed exactly
\* when it is that same payload; if its last POST timed out or failed, the
\* same payload sent again is posted.
C26_DuplicateSuppressedIffLastPosted ==
    [][(/\ lastTurn.transport = "wa" /\ lastTurn'.transport = "wa"
        /\ lastTurn'.wa = lastTurn.wa
        /\ turns' = turns + 1
        /\ lastTurn.posted # <<>>
        /\ Len(lastTurn'.sent) = 1) =>
          LET last_posted == LastOf(lastTurn.posted)
              succeeded == /\ lastTurn.delivered # <<>>
                           /\ LastOf(lastTurn.delivered) = last_posted
              payload == lastTurn'.sent[1]
              suppressed == lastTurn'.posted = <<>>
          IN  /\ succeeded => (suppressed <=> (payload = last_posted))
              /\ (~succeeded /\ payload = last_posted) => ~suppressed]_vars

\* C27: every reply sent for a valid inbound message from wa_id is addressed
\* to that wa_id.
C27_ReplyAddressedToSender ==
    (lastTurn.transport = "wa") =>
        \A i \in 1..Len(lastTurn.sent) : lastTurn.sent[i].to = lastTurn.wa


WelcomePayload == TextPayload(recipient_waid, welcome_text)

CatalogPayload == ListPayload(recipient_waid, "Elige tu producto favorito:")

FirstExchange == lastTurn.transport = "wa" /\ lastTurn.first

\* what the claim and its amendment share: no run on the first message, runs
\* from the second on, one user message and no assistant message
FirstExchangeRunsNothing ==
    /\ FirstExchange =>
          /\ lastTurn.runs = 0
          /\ ~lastRun.called
          /\ inbound[lastTurn.sid] = 1
          /\ heap[lastTurn.sid].messages = <<Message("user", lastTurn.text)>>
    /\ (lastTurn.transport = "wa" /\ lastTurn.sid # 0 /\ ~lastTurn.first) =>
          /\ inbound[lastTurn.sid] >= 2
          /\ lastTurn.runs >= 1
          /\ lastRun.called /\ lastRun.nth >= 2

\* C28 (as claimed): for the first inbound message of a conversation the
\* handler sends the welcome text and then the catalog list, without invoking
\* Agents.run; the Reasoner runs from the second message on.
C28_FirstMessageGetsWelcomeAndCatalog ==
    /\ FirstExchange => (lastTurn.sent = <<WelcomePayload, CatalogPayload>>)
    /\ FirstExchangeRunsNothing

\* C28 (amended): for the first inbound message the handler hands send_message
\* the welcome text and then, only when the catalog has at least one row, the
\* catalog list; it returns without invoking Agents.run, the Reasoner runs
\* from the second message on, and the first exchange leaves one user message
\* and no assistant message.
C28_FirstMessageGetsWelcomeThenCatalogIfAny ==
    /\ FirstExchange =>
          lastTurn.sent = IF lastTurn.rows
                          THEN <<WelcomePayload, CatalogPayload>>
                          ELSE <<WelcomePayload>>
    /\ FirstExchangeRunsNothing

C28_Witness ==
    /\ FirstExchange
    /\ ~lastTurn.rows
    /\ lastTurn.sent = <<WelcomePayload>>
    /\ heap[lastTurn.sid].messages = <<Message("user", "hola")>>


-----------------------------------------------------------------------------
(* One CLI session over many turns (specification SpecLong) *)

MaxLongTurns == 15

\* the defaults of the pruning policy the design document describes
PruneThreshold == 15

KeepMessages == 10

AllowList == {"intent", "order_complete", "payment_method", "delivery_info", "has_items"}

\* what Runner.run does in a turn of the long session: the Main Agent answers,
\* or the run raises
LongOutcomes ==
    {o \in RunnerOutcomes(StartingAgent(MainAgent)) :
        /\ Len(o.path) = 1
        /\ o.raised # "RuntimeError"
        /\ o.final_output \in {"Listo", NoneVal}}

LongInit ==
    /\ proc = "cli"
    /\ heap = <<ChatContext(cliCtx)>>
    /\ contexts = [w \in WaIds |-> 0]
    /\ last_agent = <<MainAgent>>
    /\ inbound = <<0>>
    /\ lastRun = NoRun
    /\ lastTurn = NoTurn
    /\ turns = 0
    /\ thr = Idle
    /\ ho = Idle
    /\ sb = Idle
    /\ crud = Idle
    /\ pay = Idle
    /\ cart = Idle
    /\ config = DefaultConfig

\* one pass of the loop of main(): agents.run(query, context=context)
LongTurn(query, o) ==
    /\ turns < MaxLongTurns
    /\ heap' = [heap EXCEPT ![cliCtx] = AgentsRun(@, query, o).ctx]
    /\ inbound' = [inbound EXCEPT ![cliCtx] = @ + 1]
    /\ turns' = turns + 1
    /\ UNCHANGED <<proc, contexts, last_agent, lastRun, lastTurn, thr, ho, sb, crud,
                    pay, cart, config>>

LongNext == \E o \in LongOutcomes : LongTurn("hola", o)

SpecLong == LongInit /\ [][LongNext]_vars

-----------------------------------------------------------------------------
(* The webhook server with one thread per request (specification SpecConc). *)
(* process_whatsapp_message takes no lock and keeps no per-conversation     *)
(* queue: a thread may start on a message while another is anywhere inside  *)
(* the handler, and threads switch between its statements.                  *)

Threads == {1, 2}

IdleThread == [pc |-> "idle", wa |-> NoneVal, body |-> "", ctx |-> 0, again |-> FALSE]

ConcInit ==
    /\ proc = "webhook"
    /\ heap = <<>>
    /\ contexts = [w \in WaIds |-> 0]
    /\ last_agent = <<>>
    /\ inbound = <<>>
    /\ lastRun = NoRun
    /\ lastTurn = NoTurn
    /\ turns = 0
    /\ thr = [t \in Threads |-> IdleThread]
    /\ ho = Idle
    /\ sb = Idle
    /\ crud = Idle
    /\ pay = Idle
    /\ cart = Idle
    /\ config = DefaultConfig

ConcFrame == UNCHANGED <<proc, last_agent, inbound, lastRun, lastTurn, ho, sb, crud, pay, cart, config>>

\* lines 115-136: a request thread starts on an inbound message of wa
Accept(t, wa, body) ==
    /\ thr[t].pc = "idle"
    /\ turns < MaxTurns
    /\ thr' = [thr EXCEPT ![t] = [IdleThread EXCEPT !.pc = "lookup", !.wa = wa,
                                                    !.body = body]]
    /\ turns' = turns + 1
    /\ UNCHANGED <<heap, contexts>>
    /\ ConcFrame

\* line 137: context = _contexts.get(wa_id)
Lookup(t) ==
    /\ thr[t].pc = "lookup"
    /\ LET found == ContextsGet(contexts, thr[t].wa)
       IN  thr' = [thr EXCEPT ![t].ctx = found,
                              ![t].pc = IF found = 0 THEN "create" ELSE "add"]
    /\ UNCHANGED <<heap, contexts, turns>>
    /\ ConcFrame

\* lines 138-140: context = ChatContext(); _contexts[wa_id] = context
Create(t) ==
    /\ thr[t].pc = "create"
    /\ LET oid == Len(heap) + 1
       IN  /\ heap' = Append(heap, ChatContext(oid))
           /\ contexts' = [contexts EXCEPT ![thr[t].wa] = oid]
           /\ thr' = [thr EXCEPT ![t].ctx = oid, ![t].pc = "add"]
    /\ UNCHANGED turns
    /\ ConcFrame

\* lines 142-143: add the user message, then is_first_message
AddUser(t) ==
    /\ thr[t].pc = "add"
    /\ LET c == add_message(heap[thr[t].ctx], "user", thr[t].body)
       IN  /\ heap' = [heap EXCEPT ![thr[t].ctx] = c]
           /\ thr' = [thr EXCEPT ![t].pc = IF Len(c.messages) = 1 THEN "catalog" ELSE "run"]
    /\ UNCHANGED <<contexts, turns>>
    /\ ConcFrame

\* lines 150-152: the welcome and the catalog, then return
Catalog(t, rows) ==
    /\ thr[t].pc = "catalog"
    /\ heap' = send_initial_catalog(heap, contexts, recipient_waid, rows).heap
    /\ thr' = [thr EXCEPT ![t] = IdleThread]
    /\ UNCHANGED <<contexts, turns>>
    /\ ConcFrame

\* lines 154-159 and Agents.run up to its await of Runner.run
RunBegin(t) ==
    /\ thr[t].pc = "run"
    /\ heap' = [heap EXCEPT ![thr[t].ctx] = add_message(@, "user", thr[t].body)]
    /\ thr' = [thr EXCEPT ![t].pc = "await"]
    /\ UNCHANGED <<contexts, turns>>
    /\ ConcFrame

\* Runner.run ends: Agents.run stores and returns the response and the reply is
\* sent (lines 162-202), or the exception leaves Agents.run (a RuntimeError
\* out of asyncio.run makes line 161 run _generate_response once more)
RunEnd(t, o) ==
    /\ thr[t].pc = "await"
    /\ IF o.raised = "none"
       THEN LET h2 == [heap EXCEPT ![thr[t].ctx] =
                          add_message(@, "assistant", StoredResponse(o.final_output))]
                reply == ReplyFor(o.final_output, recipient_waid)
            IN  /\ heap' = IF reply = <<>> THEN h2
                           ELSE send_message(h2, contexts, reply[1]).heap
                /\ thr' = [thr EXCEPT ![t] = IdleThread]
       ELSE /\ heap' = heap
            /\ thr' = [thr EXCEPT ![t] = IF o.raised = "RuntimeError" /\ ~thr[t].again
                                         THEN [@ EXCEPT !.pc = "run", !.again = TRUE]
                                         ELSE IdleThread]
    /\ UNCHANGED <<contexts, turns>>
    /\ ConcFrame

ConcNext ==
    \E t \in Threads :
        \/ \E wa \in WaIds, body \in UserTexts : Accept(t, wa, body)
        \/ Lookup(t)
        \/ Create(t)
        \/ AddUser(t)
        \/ \E rows \in BOOLEAN : Catalog(t, rows)
        \/ RunBegin(t)
        \/ \E o \in {x \in RunnerOutcomes(StartingAgent(MainAgent)) : Len(x.path) = 1} :
              RunEnd(t, o)

SpecConc == ConcInit /\ [][ConcNext]_vars

InFlight(t) == thr[t].pc # "idle"

\* C2: two inbound messages of one conversation id are never in the handler at
\* the same time: the second is not accepted until the turn of the first has
\* run to completion.
C2_PerSessionMutualExclusion ==
    \A t1 \in Threads, t2 \in Threads :
        (t1 # t2 /\ InFlight(t1) /\ InFlight(t2)) => thr[t1].wa # thr[t2].wa


\* C13: the ChatContext of a conversation id is created once, by its first
\* inbound message, and serves every later message of that id: an entry of
\* _contexts, once set, is never removed or replaced by another ChatContext.
C13_ContextEntryNeverReplaced ==
    [][\A wa \in WaIds :
          (contexts[wa] # 0) => (contexts'[wa] = contexts[wa])]_vars


-----------------------------------------------------------------------------
(* One hand-off on a session whose order holds lines (specification         *)
(* SpecHandoff). ChatContext takes current_order as a constructor argument; *)
(* the run starts from any order over Products.                             *)

MaxQty == 2

Products == {"pizza", "empanada"}

\* precio_unitario: Optional[float]; <<>> is None, <<p>> the price p
NoPrice == <<>>

PriceValues == {NoPrice, <<9>>}

OrderItem(producto, cantidad, precio_unitario) ==
    [producto |-> producto, cantidad |-> cantidad, precio_unitario |-> precio_unitario]

\* the values of ChatContext.current_order: key -> OrderItem
Orders ==
    UNION {{[k \in S |-> OrderItem(k, q[k], pr[k])] :
               q \in [S -> 1..MaxQty], pr \in [S -> PriceValues]} :
           S \in SUBSET Products}

\* Optional[Dict[str, Any]]: absent (None) or a dict value
NoData == [present |-> FALSE, data |-> <<>>]

SomeData(d) == [present |-> TRUE, data |-> d]

HandoffData_RefersToOrder(prompt, context_data, to_agent) ==
    [prompt |-> prompt, context_data |-> context_data, to_agent |-> to_agent,
     live |-> TRUE]

\* HandoffData, validated by the SDK from the arguments the Reasoner wrote:
\* its fields hold values, none refers to an object of the session
HandoffData(prompt, context_data, to_agent) ==
    [prompt |-> prompt, context_data |-> context_data, to_agent |-> to_agent,
     live |-> FALSE]

NoPayload == HandoffData("", NoData, NoneVal)

\* the order a payload holds: its context_data, or the session's order when
\* the payload refers to it
PayloadData(h) ==
    IF h.payload.live THEN SomeData(h.order) ELSE h.payload.context_data

on_handoff_Backfill(order, from_agent, input_data) ==
    [order |-> [k \in DOMAIN order |->
                   IF order[k].precio_unitario = NoPrice
                   THEN [order[k] EXCEPT !.precio_unitario = <<10>>]
                   ELSE order[k]],
     printed |-> <<"transfer">>]

\* on_handoff(ctx, input_data): prints the transfer, the prompt, the context
\* data and the current order; the order afterwards and the panels printed
on_handoff(order, from_agent, input_data) ==
    [order |-> order,
     printed |-> <<"transfer">>
                 \o (IF input_data.prompt # "" THEN <<"prompt">> ELSE <<>>)
                 \o (IF input_data.context_data.present /\ input_data.context_data.data # <<>>
                     THEN <<"context_data">> ELSE <<>>)
                 \o (IF order # EmptyOrder THEN <<"current_order">> ELSE <<>>)]

\* the agent that holds the run once the hand-off to target is done
AfterHandoff(from_agent, target) == target

HandoffInit ==
    /\ proc = "cli"
    /\ heap = <<>>
    /\ contexts = [w \in WaIds |-> 0]
    /\ last_agent = <<>>
    /\ inbound = <<>>
    /\ lastRun = NoRun
    /\ lastTurn = NoTurn
    /\ turns = 0
    /\ thr = Idle
    /\ sb = Idle
    /\ crud = Idle
    /\ pay = Idle
    /\ cart = Idle
    /\ config = DefaultConfig
    /\ \E a \in {MainAgent, SalesAgent}, o \in Orders :
          ho = [pc |-> "running", active |-> a, from |-> NoneVal, order |-> o,
                order0 |-> o, payload |-> NoPayload, captured |-> NoData,
                callback |-> FALSE, printed |-> <<>>]

HandoffFrame ==
    UNCHANGED <<proc, heap, contexts, last_agent, inbound, lastRun, lastTurn, turns,
                thr, sb, crud, pay, cart, config>>

\* the Reasoner calls the transfer tool of agent `to` with the arguments
\* (prompt, context_data): the SDK builds the HandoffData, runs on_handoff when
\* the hand-off was built with it, and the target agent takes over
RequestHandoff(to, prompt, context_data) ==
    /\ ho.pc = "running"
    /\ to \in Handoffs(ho.active)
    /\ LET payload == HandoffData(prompt, context_data, to)
           withCallback == to \in CallbackHandoffs(ho.active)
           cb == IF withCallback
                 THEN on_handoff(ho.order, ho.active, payload)
                 ELSE [order |-> ho.order, printed |-> <<>>]
       IN  ho' = [ho EXCEPT !.pc = "handed", !.from = ho.active,
                            !.active = AfterHandoff(ho.active, to),
                            !.order0 = ho.order, !.order = cb.order,
                            !.payload = payload,
                            !.captured = PayloadData([ho EXCEPT !.payload = payload]),
                            !.callback = withCallback, !.printed = cb.printed]
    /\ HandoffFrame

\* the session's order is changed after the hand-off
MutateOrder(o2) ==
    /\ ho.pc = "handed"
    /\ o2 # ho.order
    /\ ho' = [ho EXCEPT !.pc = "mutated", !.order = o2]
    /\ HandoffFrame

HandoffNext ==
    \/ \E to \in AgentNames, prompt \in {"", "busca pizza"} :
         \E cd \in {NoData, SomeData(EmptyOrder), SomeData(ho.order)} :
            RequestHandoff(to, prompt, cd)
    \/ \E o2 \in Orders : MutateOrder(o2)

SpecHandoff == HandoffInit /\ [][HandoffNext]_vars

Unpriced(order) == {k \in DOMAIN order : order[k].precio_unitario = NoPrice}

BetweenSalesAndProducts(h) == {h.from, h.payload.to_agent} = {SalesAgent, ProductAgent}

-----------------------------------------------------------------------------
(* initialize_supabase_client (specification SpecInit) *)

MAX_RETRIES == 3

\* what one pass of the try block does: the client is created and the probe
\* answers, or create_client or the probe raises
AttemptOutcomes ==
    {<<"ok", "ok">>} \cup {<<site, e>> : site \in {"create_client", "probe"},
                               e \in {"ConnectError", "TimeoutError", "APIError"}}

WaitTime_FromZero(retry_count) == 2 ^ (retry_count - 1)

\* wait_time = 2**retry_count
WaitTime(retry_count) == 2 ^ retry_count

MayRetry_Inclusive(retry_count) == retry_count <= MAX_RETRIES

\* while retry_count < MAX_RETRIES
MayRetry(retry_count) == retry_count < MAX_RETRIES

SbStart(url, key) ==
    [pc |-> "start", url |-> url, key |-> key, retry_count |-> 0,
     last_error |-> <<>>, attempts |-> 0, slept |-> 0, sleeps |-> <<>>,
     errors |-> <<>>, raised |-> <<>>, supabase |-> <<>>]

SbInit ==
    /\ proc = "cli"
    /\ heap = <<>>
    /\ contexts = [w \in WaIds |-> 0]
    /\ last_agent = <<>>
    /\ inbound = <<>>
    /\ lastRun = NoRun
    /\ lastTurn = NoTurn
    /\ turns = 0
    /\ thr = Idle
    /\ ho = Idle
    /\ crud = Idle
    /\ pay = Idle
    /\ cart = Idle
    /\ config = DefaultConfig
    /\ \E url \in BOOLEAN, key \in BOOLEAN : sb = SbStart(url, key)

SbFrame ==
    UNCHANGED <<proc, heap, contexts, last_agent, inbound, lastRun, lastTurn, turns,
                thr, ho, crud, pay, cart, config>>

\* lines 14-24: the credentials are read and checked
CheckCredentials ==
    /\ sb.pc = "start"
    /\ sb' = IF ~sb.url \/ ~sb.key
             THEN [sb EXCEPT !.pc = "raised", !.raised = <<"credentials", "ValueError">>]
             ELSE [sb EXCEPT !.pc = "loop"]
    /\ SbFrame

Attempt_KeepsFirstError(outcome) ==
    /\ sb.pc = "loop"
    /\ MayRetry(sb.retry_count)
    /\ sb' = IF outcome[1] = "ok"
             THEN [sb EXCEPT !.pc = "returned", !.attempts = @ + 1]
             ELSE [sb EXCEPT !.pc = "sleep", !.attempts = @ + 1,
                             !.retry_count = @ + 1,
                             !.last_error = IF @ = <<>> THEN outcome ELSE @,
                             !.errors = Append(@, outcome)]
    /\ SbFrame

\* lines 26-42: one pass of the loop up to the sleep
Attempt(outcome) ==
    /\ sb.pc = "loop"
    /\ MayRetry(sb.retry_count)
    /\ sb' = IF outcome[1] = "ok"
             THEN [sb EXCEPT !.pc = "returned", !.attempts = @ + 1]
             ELSE [sb EXCEPT !.pc = "sleep", !.attempts = @ + 1,
                             !.retry_count = @ + 1, !.last_error = outcome,
                             !.errors = Append(@, outcome)]
    /\ SbFrame

\* line 43: time.sleep(wait_time)
Sleep ==
    /\ sb.pc = "sleep"
    /\ sb' = [sb EXCEPT !.pc = "loop", !.slept = @ + WaitTime(sb.retry_count),
                        !.sleeps = Append(@, WaitTime(sb.retry_count))]
    /\ SbFrame

\* lines 45-48: the loop is left, raise last_error
GiveUp ==
    /\ sb.pc = "loop"
    /\ ~MayRetry(sb.retry_count)
    /\ sb' = [sb EXCEPT !.pc = "raised", !.raised = sb.last_error]
    /\ SbFrame

\* the clients a module-level name can be bound to: the one
\* initialize_supabase_client returned after its probe, or one that
\* get_supabase made with create_client alone
ProbedClient == <<"client", "probed">>

UnprobedClient == <<"client", "unprobed">>

\* line 52: supabase = initialize_supabase_client()
ModuleAssign ==
    /\ sb.pc = "returned"
    /\ sb' = [sb EXCEPT !.pc = "line67", !.supabase = ProbedClient]
    /\ SbFrame

\* lines 55-63 called from line 67: supabase = get_supabase(); the
\* credentials are those line 52 found, create_client returns or raises
ModuleAssignAgain(created) ==
    /\ sb.pc = "line67"
    /\ sb' = IF created
             THEN [sb EXCEPT !.pc = "imported", !.supabase = UnprobedClient]
             ELSE [sb EXCEPT !.pc = "import_failed",
                             !.raised = <<"create_client", "Exception">>]
    /\ SbFrame

SbNext ==
    \/ CheckCredentials
    \/ \E outcome \in AttemptOutcomes : Attempt(outcome)
    \/ Sleep
    \/ GiveUp
    \/ ModuleAssign
    \/ \E created \in BOOLEAN : ModuleAssignAgain(created)

SpecInit == SbInit /\ [][SbNext]_vars

\* C9: when every connect-and-probe attempt fails, the client raises after
\* exactly MAX_RETRIES = 3 attempts, having slept at least 2+4+8 seconds.
C9_RaisesAfterThreeAttempts ==
    (sb.pc = "raised" /\ sb.url /\ sb.key) =>
        /\ sb.attempts = MAX_RETRIES
        /\ Len(sb.errors) = sb.attempts
        /\ sb.raised = sb.errors[sb.attempts]
        /\ sb.slept >= 2 + 4 + 8

C9_Witness ==
    /\ sb.pc = "raised"
    /\ sb.url /\ sb.key
    /\ sb.attempts = 3

\* C20 (as claimed): every backoff sleep lies between two attempts: after the
\* attempt numbered MAX_RETRIES has failed the client raises without sleeping
\* again, so it sleeps one time fewer than it attempts.
C20_NoSleepAfterLastAttempt ==
    /\ (sb.pc = "sleep") => (sb.attempts < MAX_RETRIES)
    /\ (sb.pc = "raised" /\ sb.url /\ sb.key) =>
          /\ Len(sb.sleeps) = sb.attempts - 1
          /\ sb.slept = 2 + 4

\* C20 (amended): every failed attempt, the last one included, is followed by
\* a sleep of 2^k seconds, k the number of the attempt: sleeps and failed
\* attempts alternate, and after attempt MAX_RETRIES has failed the client
\* sleeps 2^MAX_RETRIES seconds and only then raises.
C20_SleepAfterEveryFailedAttempt ==
    /\ (sb.pc \in {"loop", "returned", "raised"} /\ sb.url /\ sb.key) =>
          /\ Len(sb.sleeps) = Len(sb.errors)
          /\ \A k \in 1..Len(sb.sleeps) : sb.sleeps[k] = 2 ^ k
    /\ (sb.pc = "sleep") =>
          /\ Len(sb.sleeps) = Len(sb.errors) - 1
          /\ sb.attempts = Len(sb.errors)
    /\ (sb.pc = "raised" /\ sb.url /\ sb.key) =>
          /\ Len(sb.sleeps) = MAX_RETRIES
          /\ sb.sleeps[MAX_RETRIES] = 2 ^ MAX_RETRIES

C20_Witness ==
    /\ sb.pc = "sleep"
    /\ sb.attempts = MAX_RETRIES
    /\ Len(sb.errors) = MAX_RETRIES
    /\ Len(sb.sleeps) = MAX_RETRIES - 1

\* Neither create_client, the probe nor time.sleep blocks for ever, so a call
\* that can take a step takes it.
SpecInitFair == SpecInit /\ WF_vars(SbNext)

SbDone == sb.pc \notin {"start", "loop", "sleep"}

SbOutcomeAsClaimed ==
    /\ (~sb.url \/ ~sb.key) =>
          /\ sb.attempts = 0
          /\ sb.sleeps = <<>>
          /\ SbDone => (sb.pc = "raised" /\ sb.raised = <<"credentials", "ValueError">>)
    /\ (sb.url /\ sb.key) =>
          /\ sb.attempts <= MAX_RETRIES
          /\ SbDone => sb.attempts >= 1
          /\ (SbDone /\ sb.pc # "raised") =>
                /\ Len(sb.errors) = sb.attempts - 1
                /\ Len(sb.sleeps) = sb.attempts - 1
          /\ (sb.pc = "raised") =>
                /\ Len(sb.errors) = sb.attempts
                /\ sb.raised = sb.errors[Len(sb.errors)]

\* C21: initialize_supabase_client always terminates; with credentials it
\* makes between 1 and MAX_RETRIES attempts, returns at the first attempt that
\* succeeds with no attempt or sleep after it, and otherwise raises the error
\* of the last attempt; with a credential missing it raises ValueError before
\* any attempt.
C21_InitializeTerminatesWithClientOrError ==
    /\ []SbOutcomeAsClaimed
    /\ [][SbDone => (sb'.attempts = sb.attempts /\ sb'.sleeps = sb.sleeps)]_vars
    /\ <>SbDone

C21_Witness ==
    /\ sb.pc = "returned"
    /\ sb.attempts = 2
    /\ Len(sb.sleeps) = 1

\* C30: once the backend module has been imported, the module-level client the
\* CRUD operations use is the client initialize_supabase_client returned, the
\* one whose connection passed the read probe.
C30_ModuleClientIsProbedClient ==
    (sb.pc = "imported") => (sb.supabase = ProbedClient)


-----------------------------------------------------------------------------
(* The CRUD tools of database.py (specification SpecCrud) *)

MaxItems == 2

MaxCalls == 2

\* what one execute() of the store does: rows, rows that fail the pydantic
\* model, an empty list, data None, or an exception
StoreOutcomes == {"rows", "bad_rows", "empty", "none", "raise"}

\* a returned string: its fixed text and, for f"...: {str(e)}", the error in it
Str(text, detail) == [text |-> text, detail |-> detail]

Return(value, queries) == [kind |-> "return", value |-> value, queries |-> queries]

Raise(exc, queries) == [kind |-> "raise", value |-> exc, queries |-> queries]

Query(table, verb, outcome) == [table |-> table, verb |-> verb, outcome |-> outcome]

\* the try block of get_products (lines 100-138)
GetProductsBody(b) ==
    LET q == <<Query("productos", "select", b)>>
    IN  CASE b = "raise" -> Raise("APIError", q)
          [] b \in {"empty", "none"} -> Return(Str("[]", ""), q)
          [] b = "bad_rows" -> Raise("ValidationError", q)
          [] OTHER -> Return(Str("products", ""), q)

\* the try block of get_product (lines 152-180)
GetProductBody(b) ==
    LET q == <<Query("productos", "select", b)>>
    IN  CASE b = "raise" -> Raise("APIError", q)
          [] b \in {"empty", "none"} -> Return(Str("Product not found", ""), q)
          [] b = "bad_rows" -> Raise("ValidationError", q)
          [] OTHER -> Return(Str("product", ""), q)

\* the try block of create_product (lines 193-203)
CreateProductBody(b) ==
    LET q == <<Query("productos", "insert", b)>>
    IN  CASE b = "raise" -> Raise("APIError", q)
          [] b \in {"empty", "none"} -> Return(Str("Error creating product", ""), q)
          [] OTHER -> Return(Str("Product successfully created", ""), q)

\* lines 238-257: the inserts of the purchase's products, outs[i] the store's
\* answer to the i-th; the loop stops at the first that raises
RECURSIVE ItemInserts(_, _)
ItemInserts(outs, i) ==
    IF i > Len(outs)
    THEN <<>>
    ELSE IF outs[i] = "raise"
         THEN <<Query("compras_productos", "insert", outs[i])>>
         ELSE <<Query("compras_productos", "insert", outs[i])>> \o ItemInserts(outs, i + 1)

\* the try block of create_purchase (lines 216-259): b answers the insert of
\* the purchase row, outs the inserts of its products
CreatePurchaseBody(b, outs) ==
    LET q == <<Query("compras", "insert", b)>>
        items == ItemInserts(outs, 1)
    IN  CASE b = "raise" -> Raise("APIError", q)
          [] b \in {"empty", "none"} ->
                Return(Str("Error creating purchase: No response data received", ""), q)
          [] OTHER ->
                IF items # <<>> /\ items[Len(items)].outcome = "raise"
                THEN Raise("APIError", q \o items)
                ELSE Return(Str("Purchase created successfully", ""), q \o items)

\* the try block of get_purchase_types (lines 270-307)
GetPurchaseTypesBody(b) ==
    LET q == <<Query("tipo_compra", "select", b)>>
    IN  CASE b = "raise" -> Raise("APIError", q)
          [] b = "none" -> Raise("TypeError", q)
          [] b = "bad_rows" -> Raise("ValidationError", q)
          [] b = "empty" -> Return(Str("[]", ""), q)
          [] OTHER -> Return(Str("purchase types", ""), q)

\* the try block of generate_sales_report (lines 325-366); valid: whether both
\* dates parse
GenerateSalesReportBody(valid, b) ==
    LET q == <<Query("compras", "select", b)>>
    IN  CASE ~valid -> Raise("ValueError", <<>>)
          [] b = "raise" -> Raise("APIError", q)
          [] b = "none" -> Raise("TypeError", q)
          [] b = "bad_rows" -> Raise("ValidationError", q)
          [] OTHER -> Return(Str("report", ""), q)

ErrorPrefix(op) ==
    CASE op = "get_products" -> "Error getting products"
      [] op = "get_product" -> "Error getting product"
      [] op = "create_product" -> "Error creating product"
      [] op = "create_purchase" -> "Error creating purchase"
      [] op = "get_purchase_types" -> "Error getting payment types"
      [] OTHER -> "Error generating report"

\* except Exception as e: return f"<prefix>: {str(e)}"
ExceptException_Uncaught(op, r) == r

ExceptException(op, r) ==
    IF r.kind = "raise"
    THEN Return(Str(ErrorPrefix(op), r.value), r.queries)
    ELSE r

\* db_tracer: logs, returns the result of the tool, re-raises what it raised
db_tracer(r) == r

\* the tool as its caller sees it: auto_schema's wrapper around db_tracer
\* around the function
Tool(op, body) == db_tracer(ExceptException(op, body))

CrudOps ==
    {"get_products", "get_product", "create_product", "create_purchase",
     "get_purchase_types", "generate_sales_report"}

CrudStart ==
    [pc |-> "idle", calls |-> 0, op |-> NoneVal, result |-> Return(Str("", ""), <<>>),
     compras |-> 0, compras_productos |-> 0, productos |-> 0]

CrudInit ==
    /\ proc = "cli"
    /\ heap = <<>>
    /\ contexts = [w \in WaIds |-> 0]
    /\ last_agent = <<>>
    /\ inbound = <<>>
    /\ lastRun = NoRun
    /\ lastTurn = NoTurn
    /\ turns = 0
    /\ thr = Idle
    /\ ho = Idle
    /\ sb = Idle
    /\ crud = CrudStart
    /\ pay = Idle
    /\ cart = Idle
    /\ config = DefaultConfig

CrudFrame ==
    UNCHANGED <<proc, heap, contexts, last_agent, inbound, lastRun, lastTurn, turns,
                thr, ho, sb, pay, cart, config>>

\* the rows a call left in a table
Written(r, table) ==
    Cardinality({i \in 1..Len(r.queries) :
        /\ r.queries[i].table = table
        /\ r.queries[i].verb = "insert"
        /\ r.queries[i].outcome \in {"rows", "bad_rows"}})

\* one call of a tool by the Reasoner or the dashboard API
Call(op, r) ==
    /\ crud.calls < MaxCalls
    /\ crud' = [pc |-> "done", calls |-> crud.calls + 1, op |-> op, result |-> r,
                compras |-> crud.compras + Written(r, "compras"),
                compras_productos |-> crud.compras_productos + Written(r, "compras_productos"),
                productos |-> crud.productos + Written(r, "productos")]
    /\ CrudFrame

CallGetProducts ==
    \E b \in StoreOutcomes : Call("get_products", Tool("get_products", GetProductsBody(b)))

CallGetProduct ==
    \E b \in StoreOutcomes : Call("get_product", Tool("get_product", GetProductBody(b)))

CallCreateProduct ==
    \E b \in StoreOutcomes \ {"bad_rows"} :
        Call("create_product", Tool("create_product", CreateProductBody(b)))

CallCreatePurchase ==
    \E b \in StoreOutcomes \ {"bad_rows"} :
        \E outs \in UNION {[1..n -> {"rows", "empty", "raise"}] : n \in 0..MaxItems} :
            Call("create_purchase", Tool("create_purchase", CreatePurchaseBody(b, outs)))

CallGetPurchaseTypes ==
    \E b \in StoreOutcomes :
        Call("get_purchase_types", Tool("get_purchase_types", GetPurchaseTypesBody(b)))

CallGenerateSalesReport ==
    \E valid \in BOOLEAN, b \in StoreOutcomes :
        Call("generate_sales_report",
             Tool("generate_sales_report", GenerateSalesReportBody(valid, b)))

CrudNext ==
    \/ CallGetProducts
    \/ CallGetProduct
    \/ CallCreateProduct
    \/ CallCreatePurchase
    \/ CallGetPurchaseTypes
    \/ CallGenerateSalesReport

SpecCrud == CrudInit /\ [][CrudNext]_vars

\* C10: every CRUD operation ends by returning a string, the success value or
\* an error description, whatever the store did: no exception reaches the
\* caller, and a query that failed is not sent again.
C10_CrudReturnsTextNeverRaises ==
    (crud.pc = "done") =>
        LET r == crud.result
        IN  /\ r.kind = "return"
            /\ DOMAIN r.value = {"text", "detail"}
            /\ \A i \in 1..Len(r.queries) :
                  (r.queries[i].outcome = "raise") =>
                      /\ i = Len(r.queries)
                      /\ r.value = Str(ErrorPrefix(crud.op), "APIError")

C10_Witness ==
    /\ crud.pc = "done"
    /\ crud.op = "create_purchase"
    /\ Len(crud.result.queries) = 2
    /\ crud.result.queries[2].outcome = "raise"
    /\ crud.result.kind = "return"

\* the inserts of line items a call sent
ItemQueries(r) == {i \in 1..Len(r.queries) : r.queries[i].table = "compras_productos"}

\* C29: create_purchase is all-or-nothing: it returns the success text only
\* if the purchase row and every line item were stored, and when it returns
\* an error text no purchase row written by the call remains in the store.
C29_CreatePurchaseAllOrNothing ==
    (crud.pc = "done" /\ crud.op = "create_purchase") =>
        LET r == crud.result
        IN  IF r.kind = "return" /\ r.value.text = "Purchase created successfully"
            THEN /\ Written(r, "compras") = 1
                 /\ \A i \in ItemQueries(r) : r.queries[i].outcome = "rows"
            ELSE Written(r, "compras") = 0


-----------------------------------------------------------------------------
(* create_mercadopago_link of payments/mp.py (specification SpecPay) *)

MaxClock == 2

MaxLinks == 2

Amounts == {10, 20}

\* a URL string: host, the fixed part of the path, and the numbers formatted
\* into it (-1: none)
Url(host, path, order_id, amount) ==
    [host |-> host, path |-> path, order_id |-> order_id, amount |-> amount]

EmptyUrl == Url("", "", -1, -1)

LinkHost == "https://link.mercadopago.com/"

\* what sdk.preference().create(preference_data) does: status 201 with an
\* init_point, status 201 without one, another status, or an exception
ProviderOutcomes == {"created", "no_init_point", "rejected", "raise"}

\* preference["init_point"] of a created preference
InitPoint == Url("https://www.mercadopago.com.ar/", "checkout/v1/redirect", -1, -1)

\* lines 100-162, the try block: the value returned or the exception raised,
\* and whether the provider was called
LinkBody(mp_token, dev_mode, amount, now, outcome) ==
    LET order_id == now
    IN  IF dev_mode
        THEN [kind |-> "return", called |-> FALSE,
              url |-> Url(LinkHost, "test-payment-", order_id, amount)]
        ELSE CASE outcome = "raise" ->
                    [kind |-> "raise", called |-> TRUE, url |-> EmptyUrl]
               [] outcome = "rejected" ->
                    [kind |-> "return", called |-> TRUE,
                     url |-> Url(LinkHost, "error-", order_id, -1)]
               [] outcome = "no_init_point" ->
                    [kind |-> "raise", called |-> TRUE, url |-> EmptyUrl]
               [] OTHER ->
                    [kind |-> "return", called |-> TRUE, url |-> InitPoint]

LinkExcept_Reraise(r, now) == r

\* lines 164-175: except Exception returns an error link in either mode
LinkExcept(r, now) ==
    IF r.kind = "raise"
    THEN [kind |-> "return", called |-> r.called,
          url |-> Url(LinkHost, "error-exception-", now, -1)]
    ELSE r

\* create_mercadopago_link(ctx, amount, title, description): mp_token is
\* whether MP_ACCESS_TOKEN is set, dev_mode whether MP_DEV_MODE is "true"
create_mercadopago_link(mp_token, dev_mode, amount, now, outcome) ==
    IF ~mp_token
    THEN [kind |-> "return", called |-> FALSE,
          url |-> Url(LinkHost, "error-no-token", -1, -1)]
    ELSE LinkExcept(LinkBody(mp_token, dev_mode, amount, now, outcome), now)

PayInit ==
    /\ proc = "cli"
    /\ heap = <<>>
    /\ contexts = [w \in WaIds |-> 0]
    /\ last_agent = <<>>
    /\ inbound = <<>>
    /\ lastRun = NoRun
    /\ lastTurn = NoTurn
    /\ turns = 0
    /\ thr = Idle
    /\ ho = Idle
    /\ sb = Idle
    /\ crud = Idle
    /\ cart = Idle
    /\ config = DefaultConfig
    /\ \E mp_token \in BOOLEAN, dev_mode \in BOOLEAN :
          pay = [pc |-> "idle", mp_token |-> mp_token, dev_mode |-> dev_mode,
                 now |-> 0, links |-> 0, amount |-> 0, outcome |-> NoneVal,
                 provider_calls |-> 0,
                 result |-> [kind |-> "return", called |-> FALSE, url |-> EmptyUrl]]

PayFrame ==
    UNCHANGED <<proc, heap, contexts, last_agent, inbound, lastRun, lastTurn, turns,
                thr, ho, sb, crud, cart, config>>

\* the Sales Agent calls the tool; outcome is what the provider would do
CreateLink(amount, outcome) ==
    /\ pay.links < MaxLinks
    /\ LET r == create_mercadopago_link(pay.mp_token, pay.dev_mode, amount, pay.now, outcome)
       IN  pay' = [pay EXCEPT !.pc = "done", !.links = @ + 1, !.amount = amount,
                              !.outcome = outcome, !.result = r,
                              !.provider_calls = @ + (IF r.called THEN 1 ELSE 0)]
    /\ PayFrame

\* time passes between calls
Tick ==
    /\ pay.now < MaxClock
    /\ pay' = [pay EXCEPT !.now = @ + 1]
    /\ PayFrame

PayNext ==
    \/ \E amount \in Amounts, outcome \in ProviderOutcomes : CreateLink(amount, outcome)
    \/ Tick

SpecPay == PayInit /\ [][PayNext]_vars

\* C11: create_mercadopago_link returns a non-empty URL string and raises
\* nothing, whether or not the access token is configured, in dev mode or not,
\* and whatever the provider does; in dev mode the URL is synthetic and the
\* provider is not called.
C11_LinkAlwaysReturnedDevNeverCallsProvider ==
    (pay.pc = "done") =>
        /\ pay.result.kind = "return"
        /\ pay.result.url # EmptyUrl
        /\ pay.result.url.host # ""
        /\ pay.dev_mode =>
              /\ pay.provider_calls = 0
              /\ pay.result.url.host = LinkHost
              /\ pay.result.url.path \in {"test-payment-", "error-no-token"}

C11_Witness ==
    /\ pay.pc = "done"
    /\ pay.mp_token
    /\ ~pay.dev_mode
    /\ pay.outcome = "raise"
    /\ pay.provider_calls = 2
    /\ pay.result.kind = "return"


-----------------------------------------------------------------------------
(* The Order Aggregate (specification SpecOrder). No code of src/ writes    *)
(* ChatContext.current_order; addItem and clear follow section 4.1 of the   *)
(* design document, over the OrderItem and current_order of agents.py.      *)

MaxOps == 3

MaxAddQty == 2

ItemNames == {"Pizza", " pizza ", "Empanada"}

\* case and whitespace normalization of a product name
NormalizeName(name) ==
    CASE name = "Pizza" -> "pizza"
      [] name = " pizza " -> "pizza"
      [] name = "Empanada" -> "empanada"
      [] OTHER -> name

AddPrices == {NoPrice, <<9>>, <<99>>}

addItem_KeyNotNormalized(order, name, quantity, unitPrice) ==
    IF quantity <= 0
    THEN order
    ELSE IF name \in DOMAIN order
    THEN [order EXCEPT ![name] =
             OrderItem(@.producto, @.cantidad + quantity,
                       IF @.precio_unitario = NoPrice THEN unitPrice
                       ELSE @.precio_unitario)]
    ELSE [k \in DOMAIN order \cup {name} |->
             IF k = name THEN OrderItem(name, quantity, unitPrice) ELSE order[k]]

addItem_OverwritesPrice(order, name, quantity, unitPrice) ==
    LET key == NormalizeName(name)
    IN  IF quantity <= 0
        THEN order
        ELSE IF key \in DOMAIN order
        THEN [order EXCEPT ![key] =
                 OrderItem(@.producto, @.cantidad + quantity,
                           IF unitPrice # NoPrice THEN unitPrice
                           ELSE @.precio_unitario)]
        ELSE [k \in DOMAIN order \cup {key} |->
                 IF k = key THEN OrderItem(key, quantity, unitPrice) ELSE order[k]]

\* addItem(name, quantity, unitPrice?) on an order: a quantity that is not
\* positive is refused; a new key gets a line; an existing line gets the
\* quantity added and takes the price only when it had none
addItem(order, name, quantity, unitPrice) ==
    LET key == NormalizeName(name)
    IN  IF quantity <= 0
        THEN order
        ELSE IF key \in DOMAIN order
        THEN [order EXCEPT ![key] =
                 OrderItem(@.producto, @.cantidad + quantity,
                           IF @.precio_unitario = NoPrice THEN unitPrice
                           ELSE @.precio_unitario)]
        ELSE [k \in DOMAIN order \cup {key} |->
                 IF k = key THEN OrderItem(key, quantity, unitPrice) ELSE order[k]]

AddOp(name, quantity, unitPrice) ==
    [name |-> name, quantity |-> quantity, unitPrice |-> unitPrice]

OrderStart ==
    [pc |-> "order", order |-> EmptyOrder, has_items |-> FALSE,
     activeHandler |-> MainAgent, ops |-> 0, log |-> <<>>]

OrderInit ==
    /\ proc = "cli"
    /\ heap = <<>>
    /\ contexts = [w \in WaIds |-> 0]
    /\ last_agent = <<>>
    /\ inbound = <<>>
    /\ lastRun = NoRun
    /\ lastTurn = NoTurn
    /\ turns = 0
    /\ thr = Idle
    /\ ho = Idle
    /\ sb = Idle
    /\ crud = Idle
    /\ pay = Idle
    /\ cart = OrderStart
    /\ config = DefaultConfig

CartFrame ==
    UNCHANGED <<proc, heap, contexts, last_agent, inbound, lastRun, lastTurn, turns,
                thr, ho, sb, crud, pay, config>>

\* Order.addItem and its side effects on the session; log keeps the calls
\* accepted since the order was last empty
AddItem(name, quantity, unitPrice) ==
    /\ cart.ops < MaxOps
    /\ cart' = IF quantity <= 0
               THEN [cart EXCEPT !.ops = @ + 1]
               ELSE [cart EXCEPT !.ops = @ + 1,
                                 !.order = addItem(@, name, quantity, unitPrice),
                                 !.has_items = TRUE,
                                 !.activeHandler = SalesAgent,
                                 !.log = Append(@, AddOp(name, quantity, unitPrice))]
    /\ CartFrame

\* Order.clear
Clear ==
    /\ cart.ops < MaxOps
    /\ cart.order # EmptyOrder
    /\ cart' = [cart EXCEPT !.ops = @ + 1, !.order = EmptyOrder, !.has_items = FALSE,
                            !.log = <<>>]
    /\ CartFrame

OrderNext ==
    \/ \E name \in ItemNames, quantity \in 0..MaxAddQty, unitPrice \in AddPrices :
          AddItem(name, quantity, unitPrice)
    \/ Clear

SpecOrder == OrderInit /\ [][OrderNext]_vars

\* the calls of log that name the product of key
CallsFor(log, key) == {i \in 1..Len(log) : NormalizeName(log[i].name) = key}

RECURSIVE SumQuantity(_, _)
SumQuantity(log, idx) ==
    IF idx = {}
    THEN 0
    ELSE LET i == CHOOSE j \in idx : TRUE
         IN  log[i].quantity + SumQuantity(log, idx \ {i})

\* C16: addItem calls whose names are equal after case and whitespace
\* normalization share one line of the order, keyed by the normalized name,
\* whose quantity is the sum of the quantities added: addItem(name, q1) then
\* addItem(name', q2) leaves a single line for the product with quantity q1 + q2.
C16_AddItemAccumulatesOnOneLine ==
    (cart.pc = "order") =>
        /\ DOMAIN cart.order = {NormalizeName(cart.log[i].name) : i \in 1..Len(cart.log)}
        /\ \A key \in DOMAIN cart.order :
              /\ cart.order[key].producto = key
              /\ cart.order[key].cantidad = SumQuantity(cart.log, CallsFor(cart.log, key))

C16_Witness ==
    /\ cart.pc = "order"
    /\ Len(cart.log) = 2
    /\ cart.log[1].name = "Pizza"
    /\ cart.log[2].name = " pizza "
    /\ cart.log[1].quantity = 2
    /\ cart.log[2].quantity = 1
    /\ DOMAIN cart.order = {"pizza"}
    /\ cart.order["pizza"].cantidad = 3

\* the calls of log for key that supplied a price
PricedCallsFor(log, key) == {i \in CallsFor(log, key) : log[i].unitPrice # NoPrice}

Min(S) == CHOOSE x \in S : \A y \in S : x <= y

\* C17: the price of a line is the first price supplied for its product: a
\* later addItem with another price adds its quantity and leaves the price as
\* it is; a supplied price is stored only while the line has none.
C17_ResolvedPriceNeverOverwritten ==
    (cart.pc = "order") =>
        \A key \in DOMAIN cart.order :
            LET priced == PricedCallsFor(cart.log, key)
            IN  /\ cart.order[key].precio_unitario =
                      IF priced = {} THEN NoPrice ELSE cart.log[Min(priced)].unitPrice
                /\ cart.order[key].cantidad = SumQuantity(cart.log, CallsFor(cart.log, key))

C17_Witness ==
    /\ cart.pc = "order"
    /\ Len(cart.log) = 2
    /\ cart.log[1] = AddOp("Pizza", 1, <<9>>)
    /\ cart.log[2] = AddOp("Pizza", 1, <<99>>)
    /\ cart.order["pizza"] = OrderItem("pizza", 2, <<9>>)


-----------------------------------------------------------------------------
(* CarritoView of ui/views/carrito_view.py (specification SpecCart) *)

\* a formatted amount f"${x:.2f}", or the text "Pendiente"
Money(amount) == [text |-> "$", amount |-> amount]

Pendiente == [text |-> "Pendiente", amount |-> 0]

\* x if x is not None else 0, on an Optional[float]
PriceOrZero(precio_unitario) ==
    IF precio_unitario # NoPrice THEN precio_unitario ELSE <<0>>

\* one row of the table of mostrar_carrito (lines 36-54); precio is the value
\* after the substitution of 0, which is what the two format tests read
CarritoRow(item_data) ==
    LET precio == PriceOrZero(item_data.precio_unitario)
        subtotal == item_data.cantidad * precio[1]
    IN  [producto |-> item_data.producto,
         cantidad |-> item_data.cantidad,
         precio_str |-> IF precio # NoPrice THEN Money(precio[1]) ELSE Pendiente,
         subtotal_str |-> IF precio # NoPrice THEN Money(subtotal) ELSE Pendiente,
         subtotal |-> subtotal]

\* the total both views accumulate: cantidad * (precio_unitario or 0)
RECURSIVE CartTotal(_, _)
CartTotal(carrito, keys) ==
    IF keys = {}
    THEN 0
    ELSE LET k == CHOOSE x \in keys : TRUE
         IN  carrito[k].cantidad * PriceOrZero(carrito[k].precio_unitario)[1]
             + CartTotal(carrito, keys \ {k})

\* mostrar_carrito(carrito, clear_screen): what is printed
mostrar_carrito(carrito, clear_screen) ==
    IF carrito = EmptyOrder
    THEN [view |-> "carrito", cleared |-> clear_screen, empty_panel |-> TRUE,
          rows |-> <<>>, total_str |-> Pendiente, details |-> {}]
    ELSE [view |-> "carrito", cleared |-> clear_screen, empty_panel |-> FALSE,
          rows |-> [k \in DOMAIN carrito |-> CarritoRow(carrito[k])],
          total_str |-> Money(CartTotal(carrito, DOMAIN carrito)),
          details |-> {}]

\* mostrar_resumen_pago(carrito, metodo_pago, link_pago): what is printed
mostrar_resumen_pago(carrito, metodo_pago, link_pago) ==
    [view |-> "resumen", cleared |-> FALSE, empty_panel |-> FALSE,
     rows |-> [k \in DOMAIN carrito |->
                  [producto |-> carrito[k].producto, cantidad |-> carrito[k].cantidad]],
     total_str |-> Money(CartTotal(carrito, DOMAIN carrito)),
     details |-> {"Numero de productos", "Productos", "Total a pagar"}
                 \cup (IF metodo_pago THEN {"Metodo de pago"} ELSE {})
                 \cup (IF link_pago THEN {"Link de pago"} ELSE {})]

NoView ==
    [view |-> "none", cleared |-> FALSE, empty_panel |-> FALSE, rows |-> <<>>,
     total_str |-> Pendiente, details |-> {}]

CartInit ==
    /\ proc = "cli"
    /\ heap = <<>>
    /\ contexts = [w \in WaIds |-> 0]
    /\ last_agent = <<>>
    /\ inbound = <<>>
    /\ lastRun = NoRun
    /\ lastTurn = NoTurn
    /\ turns = 0
    /\ thr = Idle
    /\ ho = Idle
    /\ sb = Idle
    /\ crud = Idle
    /\ pay = Idle
    /\ \E carrito \in Orders : cart = [pc |-> "cart", carrito |-> carrito, shown |-> NoView]
    /\ config = DefaultConfig

MostrarCarrito(clear_screen) ==
    /\ cart.pc = "cart"
    /\ cart' = [cart EXCEPT !.pc = "shown",
                            !.shown = mostrar_carrito(cart.carrito, clear_screen)]
    /\ CartFrame

MostrarResumenPago(metodo_pago, link_pago) ==
    /\ cart.pc = "cart"
    /\ cart' = [cart EXCEPT !.pc = "shown",
                            !.shown = mostrar_resumen_pago(cart.carrito, metodo_pago, link_pago)]
    /\ CartFrame

CartNext ==
    \/ \E clear_screen \in BOOLEAN : MostrarCarrito(clear_screen)
    \/ \E metodo_pago \in BOOLEAN, link_pago \in BOOLEAN :
          MostrarResumenPago(metodo_pago, link_pago)

SpecCart == CartInit /\ [][CartNext]_vars

Priced(order) == DOMAIN order \ Unpriced(order)

RECURSIVE SumPriced(_, _)
SumPriced(order, keys) ==
    IF keys = {}
    THEN 0
    ELSE LET k == CHOOSE x \in keys : TRUE
         IN  order[k].cantidad * order[k].precio_unitario[1] + SumPriced(order, keys \ {k})

\* what a view shows as pending
ShownPending(shown) ==
    \/ shown.total_str = Pendiente
    \/ "Pendiente" \in shown.details
    \/ \E k \in DOMAIN shown.rows :
          /\ "precio_str" \in DOMAIN shown.rows[k]
          /\ shown.rows[k].precio_str = Pendiente

\* C18: the total shown is the sum of quantity x unitPrice over the lines with
\* a resolved price, and whenever a line has no resolved price the view flags
\* it: the line is shown as pending, not as a line of price 0 in a total that
\* looks complete.
C18_UnpricedLinesFlagged ==
    (cart.pc = "shown" /\ cart.carrito # EmptyOrder) =>
        /\ cart.shown.total_str = Money(SumPriced(cart.carrito, Priced(cart.carrito)))
        /\ (Unpriced(cart.carrito) # {}) => ShownPending(cart.shown)

=============================================================================
